---- MODULE Spec2Model ----
(***************************************************************************)
(* Model of pkg/start/gen2.go: the development-mode session (Start2), its  *)
(* build step (buildCreate, buildCreateExternal, waitForBuild), the tasks  *)
(* it starts (streamLogs, handleErrors, watchChanges, watchPath) and the   *)
(* shared cancellation signal (ctx) and error channel (errch).             *)
(***************************************************************************)
EXTENDS Integers, Sequences, FiniteSets, TLC

(***************************************************************************)
(* Bounds of the model.                                                    *)
(***************************************************************************)
\* polls of the build status one waitForBuild may make
MaxPolls == 3
\* build sources (watch tasks) one service may have
MaxSources == 1
\* change events one watch task may see
MaxChanges == 4
\* live process instances ProcessList may return
MaxInstances == 2
\* AppLogs calls streamLogs may make
MaxFetches == 3
\* fields after the instruction name in an ADD or COPY line
MaxFields == 6
\* ADD and COPY lines of a build-instruction file
MaxCopies == 3
\* files one handleAdds call may have to upload
MaxAdds == 2
\* characters of a destination string given to replaceEnv
MaxDst == 3

(***************************************************************************)
(* Program constants.                                                      *)
(***************************************************************************)
\* ReleasePromoteOptions.Min and .Timeout of the development promotion
PromoteMin == 0
PromoteTimeout == 300
\* len(adds) > 3 / len(removes) > 3: above it, one summary line
SummaryThreshold == 3
\* cch := make(chan changes.Change, 1)
CchCapacity == 1

\* the services of the manifest that are selected and have a Build.Path
Services == {"web", "worker"}
\* one watchPath task per build source of a service
Tasks == Services \X (1 .. MaxSources)

Statuses == {"created", "running", "complete", "failed", "bogus"}
Operations == {"add", "remove"}

VARIABLES
  opts,         \* Options2: Build, External
  cancelled,    \* ctx.Done() is closed
  cancelPc,     \* when ctx was cancelled ("" before): with Start2 at
                \* "start", at "waitForBuild", or "later"
  pc,           \* position of Start2
  trail,        \* the positions Start2 has left
  observed,     \* where Start2 last took a <-ctx.Done() ("" if nowhere)
  app,          \* the release AppGet returned at teardown
  result,       \* what Start2 returned ("pending" before it returns)
  wfb,          \* what waitForBuild returned ("pending" before it returns)
  polls,        \* the statuses BuildGet returned to waitForBuild, in order
  promotes,     \* the ReleasePromote calls issued, in order
  copying,      \* the build-log-copy task was started
  logs,         \* position of streamLogs
  he,           \* position of handleErrors
  errchClosed,  \* close(errch) has run
  printed,      \* the senders whose error handleErrors received and printed
  panicked,     \* a send on the closed errch crashed the program
  wc,           \* position of each service's watchChanges
  wp,           \* position of each watchPath task
  cch,          \* each watch task's channel of change events
  chgs,         \* each watch task's batch
  log,          \* what each watch task called and wrote in the latest
                \* iteration of its select loop
  nextId,       \* path of the next change event
  flushes,      \* for each change event, the flushes it was part of
  held,         \* for each watch task, the size of the batch it kept at the
                \* latest tick on which ProcessList failed (0 if none)
  fetches,      \* what each AppLogs call of streamLogs returned, in order
  naps,         \* the time.Sleep calls of streamLogs
  scanned,      \* the line writeLogs scanned last, whether it took
                \* <-ctx.Done() on it, and what it wrote for it
  df,           \* buildSources: the lines of the build-instruction file,
                \* each the fields of strings.Fields
  bsPc,         \* position of buildSources
  bsLine,       \* the line buildSources scans next
  bs,           \* buildSources: bs
  env,          \* buildSources: env
  wd,           \* buildSources: wd
  bss,          \* the list buildSources returned
  bsErr,        \* the error buildSources returned ("" if none), "panic" if
                \* it panicked
  inspected,    \* how the inspections of the image of the latest FROM line
                \* ended and what they gave
  ha,           \* position of handleAdds
  haRet,        \* what handleAdds returned ("pending" before it returns)
  up,           \* position of the upload task of handleAdds
  upRes,        \* what FilesUpload returned ("pending" before it returns)
  pipe,         \* io.Pipe(): the state of the write end and the read end
  twErr,        \* the tar writer has met a write error
  nadds,        \* handleAdds: len(adds)
  idx,          \* handleAdds: the add the loop is at
  tar,          \* the adds whose header went into the archive
  reS,          \* replaceEnv: the string it is called with
  reEnv,        \* replaceEnv: the map it is called with
  rePc,         \* position of replaceEnv
  reCur,        \* replaceEnv: s, as the loop has rewritten it so far
  reLeft,       \* replaceEnv: the keys range has still to visit
  reOuts        \* the results replaceEnv returned for reS and reEnv

vars == <<opts, cancelled, cancelPc, pc, trail, observed, app, result, wfb, polls, promotes,
          copying, logs, he, errchClosed, printed, panicked, wc, wp, cch,
          chgs, log, nextId, flushes, held, fetches, naps, scanned, df, bsPc,
          bsLine, bs, env, wd, bss, bsErr, inspected, ha, haRet, up, upRes,
          pipe, twErr, nadds, idx, tar, reS, reEnv, rePc, reCur, reLeft,
          reOuts>>

mainVars == <<pc, trail, observed, app, result, wfb, polls, promotes, copying>>
taskVars == <<logs, he, printed, wc>>
watchVars == <<wp, cch, chgs, log, nextId, flushes, held>>
streamVars == <<fetches, naps, scanned>>
srcVars == <<df, bsPc, bsLine, bs, env, wd, bss, bsErr, inspected>>
addsVars == <<ha, haRet, up, upRes, pipe, twErr, nadds, idx, tar>>
envVars == <<reS, reEnv, rePc, reCur, reLeft, reOuts>>
auxVars == <<streamVars, srcVars, addsVars, envVars>>

(***************************************************************************)
(* Values.                                                                 *)
(***************************************************************************)
\* popts of the development promotion
DevPromoteOptions ==
  [Development |-> TRUE, Force |-> TRUE, Idle |-> FALSE,
   Min |-> PromoteMin, Timeout |-> PromoteTimeout]

\* popts of the promotion at teardown
TeardownPromoteOptions == [Development |-> FALSE, Force |-> TRUE]

\* the calls of buildCreateExternal that can fail, in order
ExternalSteps ==
  <<"SystemGet", "BuildCreate", "ReadFile", "BuildUpdate", "Execute",
    "ReleaseCreate", "BuildUpdateRelease">>

ExternalPcs == {ExternalSteps[i] : i \in 1 .. Len(ExternalSteps)}

\* the position after a call of buildCreateExternal succeeded
ExternalNextSkipsRelease(step) ==
  LET i == CHOOSE k \in 1 .. Len(ExternalSteps) : ExternalSteps[k] = step
  IN IF ExternalSteps[i] # "Execute" THEN
       IF i < Len(ExternalSteps) THEN ExternalSteps[i + 1]
       ELSE "checkCancelled"
     ELSE "checkCancelled"

ExternalNext(step) ==
  LET i == CHOOSE k \in 1 .. Len(ExternalSteps) : ExternalSteps[k] = step
  IN IF i < Len(ExternalSteps) THEN ExternalSteps[i + 1] ELSE "checkCancelled"

\* the switch on b.Status in waitForBuild: "continue" keeps polling
waitForBuildSwitchSkipsFailed(status) ==
  CASE status \in {"created", "running", "failed"} -> "continue"
    [] status = "complete" -> "nil"
    [] OTHER -> "unknown build status"

waitForBuildSwitchFailedIsComplete(status) ==
  CASE status \in {"created", "running"} -> "continue"
    [] status \in {"complete", "failed"} -> "nil"
    [] OTHER -> "unknown build status"

waitForBuildSwitch(status) ==
  CASE status \in {"created", "running"} -> "continue"
    [] status = "complete" -> "nil"
    [] status = "failed" -> "build failed"
    [] OTHER -> "unknown build status"

\* what common.WaitForAppRunningContext can end with
WaitForAppRunningOutcomes ==
  {"running", "error"} \cup (IF cancelled THEN {"cancelled"} ELSE {})

\* nothing fetched, nothing scanned
NoLine == [line |-> <<>>, done |-> FALSE, wrote |-> <<>>]

\* A string of a build-instruction file, and a path made from one:
\* its kind ("path" for plain text, "option" for a field that reDockerOption
\* matches, "url" for one with a scheme, "malformed" for one url.Parse
\* rejects, "empty" for ""), the name of the option or the scheme, and the
\* text as a path: absolute or not, its segments, a trailing slash or not.
\* No segment is the start of another one.
Field(kind, name, abs, segs, slash) ==
  [kind |-> kind, name |-> name, abs |-> abs, segs |-> segs, slash |-> slash]

P(abs, segs, slash) == Field("path", "", abs, segs, slash)

Empty == Field("empty", "", FALSE, <<>>, FALSE)

Dot == P(FALSE, <<>>, FALSE)

\* env := map[string]string{}
NoEnv == [k \in {} |-> ""]

\* no image inspected
NoInspection == [eres |-> "none", ee |-> <<>>, wres |-> "none", iw |-> Empty]

\* buildSources does not run
IdleSources ==
  /\ df = <<>>
  /\ bsPc = "idle"
  /\ bsLine = 1
  /\ bs = <<>>
  /\ env = NoEnv
  /\ wd = Empty
  /\ bss = <<>>
  /\ bsErr = ""
  /\ inspected = NoInspection

\* handleAdds does not run
IdleAdds ==
  /\ ha = "idle"
  /\ haRet = "pending"
  /\ up = "idle"
  /\ upRes = "pending"
  /\ pipe = [w |-> "none", r |-> "none"]
  /\ twErr = FALSE
  /\ nadds = 0
  /\ idx = 1
  /\ tar = <<>>

\* replaceEnv is not called
IdleEnv ==
  /\ reS = <<>>
  /\ reEnv = [k \in {} |-> <<>>]
  /\ rePc = "idle"
  /\ reCur = <<>>
  /\ reLeft = {}
  /\ reOuts = {}

InitAux ==
  /\ fetches = <<>>
  /\ naps = 0
  /\ scanned = NoLine
  /\ IdleSources
  /\ IdleAdds
  /\ IdleEnv

Init ==
  /\ opts \in [Build : BOOLEAN, External : BOOLEAN]
  /\ cancelled = FALSE
  /\ cancelPc = ""
  /\ pc = "start"
  /\ trail = {}
  /\ observed = ""
  /\ app = "unread"
  /\ result = "pending"
  /\ wfb = "pending"
  /\ polls = <<>>
  /\ promotes = <<>>
  /\ copying = FALSE
  /\ logs = "idle"
  /\ he = "idle"
  /\ errchClosed = FALSE
  /\ printed = {}
  /\ panicked = FALSE
  /\ wc = [s \in Services |-> "idle"]
  /\ wp = [t \in Tasks |-> "idle"]
  /\ cch = [t \in Tasks |-> <<>>]
  /\ chgs = [t \in Tasks |-> <<>>]
  /\ log = [t \in Tasks |-> <<>>]
  /\ nextId = 1
  /\ flushes = [i \in {} |-> 0]
  /\ held = [t \in Tasks |-> 0]
  /\ InitAux


(***************************************************************************)
(* The cancellation signal.                                                *)
(***************************************************************************)
Cancel ==
  /\ ~cancelled
  /\ cancelled' = TRUE
  /\ cancelPc' = IF pc \in {"start", "waitForBuild"} THEN pc ELSE "later"
  /\ UNCHANGED <<auxVars, opts, mainVars, taskVars, watchVars, errchClosed,
                 panicked>>

(***************************************************************************)
(* Start2 and the build step.                                              *)
(***************************************************************************)
\* Start2 goes on to position p
Goto(p) ==
  /\ pc' = p
  /\ trail' = trail \cup {pc}
  /\ UNCHANGED <<result, errchClosed>>

\* Start2 returns v; the deferred close(errch) runs if errch was made
Return(v, made) ==
  /\ pc' = "done"
  /\ trail' = trail \cup {pc}
  /\ result' = v
  /\ errchClosed' = made

\* Start2: the check of ctx on entry
Start2Entry ==
  /\ pc = "start"
  /\ IF cancelled
       THEN Return("nil", FALSE) /\ observed' = pc
       ELSE Goto("setup") /\ UNCHANGED observed
  /\ UNCHANGED <<auxVars, opts, cancelled, cancelPc, wfb, polls, promotes, copying,
                 app, taskVars, watchVars, panicked>>

\* the position after the setup: the build step, if asked for
AfterSetup(o) ==
  IF o.Build THEN IF o.External THEN ExternalSteps[1] ELSE "upload"
  ELSE "spawn"

\* Start2: the application, the manifest and the set of services
Start2Setup ==
  /\ pc = "setup"
  /\ \E r \in {"ok", "app required", "AppCreate", "invalid generation",
               "manifest", "AppEnvironment", "Load", "Validate"} :
       IF r = "ok" THEN Goto(AfterSetup(opts)) ELSE Return(r, FALSE)
  /\ UNCHANGED <<auxVars, opts, cancelled, cancelPc, wfb, polls, promotes, copying,
                 observed, app, taskVars, watchVars, panicked>>

\* buildCreate: Tarball and ObjectStore
BuildCreateUpload ==
  /\ pc = "upload"
  /\ \E r \in {"ok", "Tarball", "ObjectStore"} :
       IF r = "ok" THEN Goto("create") ELSE Return(r, FALSE)
  /\ UNCHANGED <<auxVars, opts, cancelled, cancelPc, wfb, polls, promotes, copying,
                 observed, app, taskVars, watchVars, panicked>>

\* buildCreate: BuildCreate, BuildLogs and the start of the log copy
BuildCreateStart ==
  /\ pc = "create"
  /\ \E r \in {"ok", "BuildCreate", "BuildLogs"} :
       IF r = "ok"
         THEN Goto("waitForBuild") /\ copying' = TRUE
         ELSE Return(r, FALSE) /\ UNCHANGED copying
  /\ UNCHANGED <<auxVars, opts, cancelled, cancelPc, wfb, polls, promotes, observed,
                 app, taskVars, watchVars, panicked>>

\* waitForBuild: the select takes <-ctx.Done()
WaitForBuildCancelled ==
  /\ pc = "waitForBuild"
  /\ cancelled
  /\ wfb' = "nil"
  /\ observed' = pc
  /\ Goto("reread")
  /\ UNCHANGED <<auxVars, opts, cancelled, cancelPc, polls, promotes, copying, app,
                 taskVars, watchVars, panicked>>

\* waitForBuild: the select takes <-tick: one BuildGet and the switch on
\* its status; an error ends buildCreate and Start2 with it
WaitForBuildTick ==
  /\ pc = "waitForBuild"
  /\ Len(polls) < MaxPolls
  /\ \E r \in Statuses \cup {"BuildGet"} :
       IF r = "BuildGet"
         THEN /\ wfb' = r
              /\ Return(r, FALSE)
              /\ UNCHANGED polls
         ELSE /\ polls' = Append(polls, r)
              /\ LET a == waitForBuildSwitch(r)
                 IN CASE a = "continue" ->
                           UNCHANGED <<pc, trail, result, wfb, errchClosed>>
                      [] a = "nil" -> wfb' = "nil" /\ Goto("reread")
                      [] OTHER -> wfb' = a /\ Return(a, FALSE)
  /\ UNCHANGED <<auxVars, opts, cancelled, cancelPc, promotes, copying, observed, app,
                 taskVars, watchVars, panicked>>

\* buildCreate: the build record is read again after waitForBuild
BuildCreateReread ==
  /\ pc = "reread"
  /\ \E r \in {"ok", "BuildGet"} :
       IF r = "ok" THEN Goto("checkCancelled") ELSE Return(r, FALSE)
  /\ UNCHANGED <<auxVars, opts, cancelled, cancelPc, wfb, polls, promotes, copying,
                 observed, app, taskVars, watchVars, panicked>>

\* buildCreateExternal: one of its calls, which succeeds or fails
BuildCreateExternal ==
  /\ pc \in ExternalPcs
  /\ \E ok \in BOOLEAN :
       IF ok THEN Goto(ExternalNext(pc)) ELSE Return(pc, FALSE)
  /\ UNCHANGED <<auxVars, opts, cancelled, cancelPc, wfb, polls, promotes, copying,
                 observed, app, taskVars, watchVars, panicked>>

\* Start2: the check of ctx between the build and the promotion
Start2CheckCancelled ==
  /\ pc = "checkCancelled"
  /\ IF cancelled
       THEN Return("nil", FALSE) /\ observed' = pc
       ELSE Goto("promote") /\ UNCHANGED observed
  /\ UNCHANGED <<auxVars, opts, cancelled, cancelPc, wfb, polls, promotes, copying,
                 app, taskVars, watchVars, panicked>>

\* Start2: the development promotion of the build's release
Start2Promote ==
  /\ pc = "promote"
  /\ promotes' = Append(promotes, DevPromoteOptions)
  /\ \E r \in {"ok", "ReleasePromote"} :
       IF r = "ok" THEN Goto("spawn") ELSE Return(r, FALSE)
  /\ UNCHANGED <<auxVars, opts, cancelled, cancelPc, wfb, polls, copying, observed,
                 app, taskVars, watchVars, panicked>>

\* Start2: go streamLogs, make errch, go handleErrors, Getwd, and one
\* go watchChanges per service
Start2Spawn ==
  /\ pc = "spawn"
  /\ logs' = "select"
  /\ he' = "select"
  /\ \E r \in {"ok", "Getwd"} :
       IF r = "ok"
         THEN Goto("waitRunning") /\ wc' = [s \in Services |-> "setup"]
         ELSE Return(r, TRUE) /\ UNCHANGED wc
  /\ UNCHANGED <<auxVars, opts, cancelled, cancelPc, wfb, polls, promotes, copying,
                 observed, app, printed, watchVars, panicked>>

\* Start2: common.WaitForAppRunningContext, which ends when the
\* application runs, on an error, or on <-ctx.Done() without an error
Start2WaitForAppRunning ==
  /\ pc = "waitRunning"
  /\ \E r \in WaitForAppRunningOutcomes :
       /\ IF r = "error"
            THEN Return("WaitForAppRunning", TRUE)
            ELSE Goto("block")
       /\ observed' = IF r = "cancelled" THEN pc ELSE observed
  /\ UNCHANGED <<auxVars, opts, cancelled, cancelPc, wfb, polls, promotes, copying,
                 app, taskVars, watchVars, panicked>>

\* the promotion at teardown, given the release the application names
TeardownPromotesNothing(release) == <<>>

TeardownPromotes(release) ==
  IF release # "" THEN <<TeardownPromoteOptions>> ELSE <<>>

\* Start2: <-ctx.Done(), AppGet, and the promotion of the application's
\* release without the development flag
Start2Teardown ==
  /\ pc = "block"
  /\ cancelled
  /\ observed' = pc
  /\ \E a \in {"AppGet", "", "R1"} :
       /\ app' = a
       /\ IF a = "AppGet"
            THEN Return("nil", TRUE) /\ UNCHANGED promotes
            ELSE /\ promotes' = promotes \o TeardownPromotes(a)
                 /\ \E r \in {"nil"} \cup
                             (IF a # "" THEN {"ReleasePromote"} ELSE {}) :
                      Return(r, TRUE)
  /\ UNCHANGED <<auxVars, opts, cancelled, cancelPc, wfb, polls, copying, taskVars,
                 watchVars, panicked>>

(***************************************************************************)
(* streamLogs and handleErrors.                                            *)
(***************************************************************************)
\* A string is the sequence of its words and separators: "/", " " and "-"
\* are the separators, "TS" stands for a date and time as
\* \d{4}-\d{2}-\d{2}T\d{2}:\d{2}:\d{2}Z and "ESC" for a cursor-positioning
\* sequence \033[<row>;<col>H; every other element is a word without any of
\* them.

\* services: the names of the services the session shows
Interest == {<<s>> : s \in Services}

\* a line put together from its parts
Line(pre, kind, name, id, gap, msg) ==
  pre \o kind \o <<"/">> \o name \o <<"/">> \o id \o gap \o msg

\* the lines an AppLogs stream may carry: lines of the structured pattern
\* of every origin, and lines with parts of the pattern missing
LineKinds == {<<"service">>, <<"system">>, <<"build">>}
LineNames == {<<"web">>, <<"db">>, <<"web", " ", "x">>}
LineIds ==
  {<<"web", "-", "1">>, <<"worker", "-", "web", "-", "1">>,
   <<"db", "-", "web">>, <<"web">>, <<"-", "web">>}
LineMessages == {<<>>, <<"hello", "ESC", "world">>}

Lines ==
  {Line(<<"TS", " ">>, kind, name, id, <<" ">>, msg) :
     kind \in LineKinds, name \in LineNames, id \in LineIds,
     msg \in LineMessages}
  \cup
  {Line(pre, kind, name, id, gap, <<"hello">>) :
     pre \in {<<"TS", " ">>, <<"TS">>, <<" ">>},
     kind \in {<<"service">>, <<>>}, name \in {<<"web">>, <<>>},
     id \in {<<"web", "-", "1">>, <<>>}, gap \in {<<" ">>, <<>>}}

\* the place of the first c in q, 0 if there is none
Index(q, c) ==
  IF \E i \in 1 .. Len(q) : q[i] = c
    THEN CHOOSE i \in 1 .. Len(q) :
           q[i] = c /\ \A j \in 1 .. i - 1 : q[j] # c
    ELSE 0

After(q, i) == SubSeq(q, i + 1, Len(q))

\* reAppLog.FindStringSubmatch:
\* ^(date)T(time)Z ([^/]+)/([^/]+)/([^ ]+) (.*)$
reAppLog(l) ==
  LET r == After(l, 2)
      s1 == Index(r, "/")
      r2 == After(r, s1)
      s2 == Index(r2, "/")
      r3 == After(r2, s2)
      sp == Index(r3, " ")
  IN IF /\ Len(l) >= 2
        /\ l[1] = "TS"
        /\ l[2] = " "
        /\ s1 > 1
        /\ s2 > 1
        /\ sp > 1
       THEN [ok |-> TRUE, kind |-> SubSeq(r, 1, s1 - 1),
             name |-> SubSeq(r2, 1, s2 - 1), id |-> SubSeq(r3, 1, sp - 1),
             msg |-> After(r3, sp)]
       ELSE [ok |-> FALSE, kind |-> <<>>, name |-> <<>>, id |-> <<>>,
             msg |-> <<>>]

NotScreenCommand(c) == c # "ESC"

stripANSIScreenCommands(data) == SelectSeq(data, NotScreenCommand)

\* strings.Split(id, "-")[0]
FirstSegment(id) ==
  IF Index(id, "-") = 0 THEN id ELSE SubSeq(id, 1, Index(id, "-") - 1)

\* one pw.Writef(service, "%s\n", text)
Writef(service, text) == [key |-> service, text |-> text]

\* writeLogs: what the body of the scan loop writes for one line
writeLogsLineSystemByName(l, services) ==
  LET match == reAppLog(l)
  IN IF ~match.ok THEN <<>>
     ELSE CASE match.kind = <<"service">> ->
                 IF match.name \in services
                   THEN <<Writef(match.name,
                                 stripANSIScreenCommands(match.msg))>>
                   ELSE <<>>
            [] match.kind = <<"system">> ->
                 IF match.name \in services
                   THEN <<Writef(match.name, match.msg)>>
                   ELSE <<>>
            [] OTHER -> <<>>

writeLogsLine(l, services) ==
  LET match == reAppLog(l)
  IN IF ~match.ok THEN <<>>
     ELSE CASE match.kind = <<"service">> ->
                 IF match.name \in services
                   THEN <<Writef(match.name,
                                 stripANSIScreenCommands(match.msg))>>
                   ELSE <<>>
            [] match.kind = <<"system">> ->
                 IF FirstSegment(match.id) \in services
                   THEN <<Writef(FirstSegment(match.id), match.msg)>>
                   ELSE <<>>
            [] OTHER -> <<>>

\* what an AppLogs call can return: an error, or a stream of lines
AppLogsResults == {"error", "stream"}

\* streamLogs: the position after AppLogs returned: writeLogs only if
\* err == nil, then the inner select in both cases
AfterAppLogsGivesUp(res) == IF res = "error" THEN "done" ELSE "writeLogs"

AfterAppLogs(res) == IF res = "error" THEN "fetched" ELSE "writeLogs"

\* streamLogs: the outer select: return on ctx.Done(), else AppLogs
StreamLogsSelect(done) == IF done THEN "return" ELSE "default"

StreamLogsFetch ==
  /\ logs = "select"
  /\ IF StreamLogsSelect(cancelled) = "return"
       THEN logs' = "done" /\ UNCHANGED fetches
       ELSE /\ Len(fetches) < MaxFetches
            /\ \E res \in AppLogsResults :
                 /\ fetches' = Append(fetches, res)
                 /\ logs' = AfterAppLogs(res)
  /\ UNCHANGED <<opts, cancelled, cancelPc, mainVars, he, printed, wc,
                 watchVars, errchClosed, panicked, naps, scanned, srcVars,
                 addsVars, envVars>>

\* writeLogs: ls.Scan() gave a line: return on ctx.Done(), else the line is
\* matched and written
WriteLogsLine ==
  /\ logs = "writeLogs"
  /\ \E l \in Lines :
       IF cancelled
         THEN /\ scanned' = [line |-> l, done |-> TRUE, wrote |-> <<>>]
              /\ logs' = "fetched"
         ELSE /\ scanned' = [line |-> l, done |-> FALSE,
                             wrote |-> writeLogsLine(l, Interest)]
              /\ UNCHANGED logs
  /\ UNCHANGED <<opts, cancelled, cancelPc, mainVars, he, printed, wc,
                 watchVars, errchClosed, panicked, fetches, naps, srcVars,
                 addsVars, envVars>>

\* writeLogs: ls.Scan() gave no line: the stream ended or failed
WriteLogsEnd ==
  /\ logs = "writeLogs"
  /\ logs' = "fetched"
  /\ UNCHANGED <<auxVars, opts, cancelled, cancelPc, mainVars, he, printed,
                 wc, watchVars, errchClosed, panicked>>

\* streamLogs: the inner select: return on ctx.Done(), else sleep 1 second
StreamLogsSleep ==
  /\ logs = "fetched"
  /\ IF cancelled
       THEN logs' = "done" /\ UNCHANGED naps
       ELSE logs' = "select" /\ naps' = naps + 1
  /\ UNCHANGED <<opts, cancelled, cancelPc, mainVars, he, printed, wc,
                 watchVars, errchClosed, panicked, fetches, scanned,
                 srcVars, addsVars, envVars>>

\* handleErrors: the select takes <-ctx.Done()
HandleErrorsCancelled ==
  /\ he = "select"
  /\ cancelled
  /\ he' = "done"
  /\ UNCHANGED <<auxVars, opts, cancelled, cancelPc, mainVars, logs, printed, wc,
                 watchVars, errchClosed, panicked>>

\* the tasks blocked in a send on errch: <<s, 0>> is watchChanges of
\* service s, <<s, i>> its i-th watchPath
Senders ==
  {<<s, 0>> : s \in {v \in Services : wc[v] = "send"}}
    \cup {t \in Tasks : wp[t] = "send"}

\* a sender has sent: it returns
Sent(x) ==
  /\ wc' = IF x[2] = 0 THEN [wc EXCEPT ![x[1]] = "done"] ELSE wc
  /\ wp' = IF x[2] # 0 THEN [wp EXCEPT ![x] = "done"] ELSE wp

\* ch <- err of watchChanges or watchPath meets err := <-errch of
\* handleErrors, which prints the error (errch is unbuffered)
ErrchSend(x) ==
  /\ x \in Senders
  /\ ~errchClosed
  /\ he = "select"
  /\ printed' = printed \cup {x}
  /\ Sent(x)
  /\ UNCHANGED <<auxVars, opts, cancelled, cancelPc, mainVars, logs, he, cch,
                 chgs, log, nextId, flushes, held,
                 errchClosed, panicked>>

\* ch <- err on the closed errch: the send panics
ErrchSendClosed(x) ==
  /\ x \in Senders
  /\ errchClosed
  /\ panicked' = TRUE
  /\ UNCHANGED <<auxVars, opts, cancelled, cancelPc, mainVars, taskVars,
                 watchVars, errchClosed>>

(***************************************************************************)
(* watchChanges.                                                           *)
(***************************************************************************)
\* the watch tasks watchChanges starts for service s when buildSources
\* and buildIgnores succeeded (ok) with n build sources
WatchPathsStartedDespiteError(s, ok, n) ==
  {t \in Tasks : t[1] = s /\ t[2] <= n}

WatchPathsStarted(s, ok, n) ==
  IF ok THEN {t \in Tasks : t[1] = s /\ t[2] <= n} ELSE {}

\* watchChanges: buildSources and buildIgnores, then one go watchPath per
\* build source; an error of either is sent on errch
WatchChangesSetup(s) ==
  /\ wc[s] = "setup"
  /\ \E ok \in BOOLEAN, n \in 0 .. MaxSources :
       /\ wc' = [wc EXCEPT ![s] = IF ok THEN "done" ELSE "send"]
       /\ wp' = [t \in Tasks |->
                   IF t \in WatchPathsStarted(s, ok, n) THEN "setup"
                   ELSE wp[t]]
  /\ UNCHANGED <<auxVars, opts, cancelled, cancelPc, mainVars, logs, he, printed,
                 cch, chgs, log, nextId, flushes, held,
                 errchClosed, panicked>>

(***************************************************************************)
(* watchPath.                                                              *)
(***************************************************************************)
\* a change event: the path of a file and what happened to it
Change(path, op) == [Path |-> path, Operation |-> op]

\* an entry of a watch task's log: a call or a written message
Entry(ev, pid, n, res) == [ev |-> ev, pid |-> pid, n |-> n, res |-> res]

Message(text, n) == Entry(text, 0, n, "")

RECURSIVE Select(_, _)
\* the changes of a batch with the given operation, in order
Select(cs, op) ==
  IF cs = <<>> THEN <<>>
  ELSE IF Head(cs).Operation = op
         THEN <<Head(cs)>> \o Select(Tail(cs), op)
         ELSE Select(Tail(cs), op)

\* changes.Partition: the adds and the removes of a batch, each in arrival
\* order (every change event here has a path of its own)
Partition(cs) == [adds |-> Select(cs, "add"), removes |-> Select(cs, "remove")]

\* the progress lines written before handleAdds for one instance
AddMessagesAtThreshold(as) ==
  IF Len(as) >= SummaryThreshold THEN <<Message("sync summary", Len(as))>>
  ELSE [i \in 1 .. Len(as) |-> Message("sync file", as[i].Path)]

AddMessages(as) ==
  IF Len(as) > SummaryThreshold THEN <<Message("sync summary", Len(as))>>
  ELSE [i \in 1 .. Len(as) |-> Message("sync file", as[i].Path)]

\* the progress lines written before handleRemoves for one instance
RemoveMessages(rs) ==
  IF Len(rs) > SummaryThreshold THEN <<Message("remove summary", Len(rs))>>
  ELSE [i \in 1 .. Len(rs) |-> Message("remove file", rs[i].Path)]

\* what handleAdds and handleRemoves can return for a list of changes:
\* an empty list is no call at all
HandleResults(cs) == IF Len(cs) = 0 THEN {"nil"} ELSE {"nil", "error"}

\* the flush a change is counted in
Flushed(fl, cs) ==
  [i \in DOMAIN fl \cup {cs[k].Path : k \in 1 .. Len(cs)} |->
     (IF i \in DOMAIN fl THEN fl[i] ELSE 0)
       + Cardinality({k \in 1 .. Len(cs) : cs[k].Path = i})]

\* watchPath: Abs, Getwd and Rel, the "starting sync" line, go changes.Watch
WatchPathSetup(t) ==
  /\ wp[t] = "setup"
  /\ \E ok \in BOOLEAN :
       IF ok
         THEN /\ wp' = [wp EXCEPT ![t] = "select"]
              /\ log' = [log EXCEPT ![t] = <<Message("starting sync", 0)>>]
         ELSE /\ wp' = [wp EXCEPT ![t] = "send"]
              /\ UNCHANGED log
  /\ UNCHANGED <<auxVars, opts, cancelled, cancelPc, mainVars, taskVars, cch,
                 chgs, nextId, flushes, held,
                 errchClosed, panicked>>

\* changes.Watch: a change event is put on cch, which holds one
WatchEvent(t) ==
  /\ wp[t] = "select"
  /\ Len(cch[t]) < CchCapacity
  /\ nextId <= MaxChanges
  /\ \E op \in Operations :
       cch' = [cch EXCEPT ![t] = Append(@, Change(nextId, op))]
  /\ nextId' = nextId + 1
  /\ UNCHANGED <<auxVars, opts, cancelled, cancelPc, mainVars, taskVars, wp,
                 chgs, log, flushes, held, errchClosed,
                 panicked>>

\* watchPath: the select takes <-ctx.Done(): the batch is dropped
WatchPathCancelled(t) ==
  /\ wp[t] = "select"
  /\ cancelled
  /\ wp' = [wp EXCEPT ![t] = "done"]
  /\ UNCHANGED <<auxVars, opts, cancelled, cancelPc, mainVars, taskVars, cch,
                 chgs, log, nextId, flushes, held,
                 errchClosed, panicked>>

\* watchPath: the select takes c := <-cch: the change joins the batch,
\* nothing is called or written
WatchPathChange(t) ==
  /\ wp[t] = "select"
  /\ cch[t] # <<>>
  /\ chgs' = [chgs EXCEPT ![t] = Append(@, Head(cch[t]))]
  /\ cch' = [cch EXCEPT ![t] = Tail(@)]
  /\ log' = [log EXCEPT ![t] = <<>>]
  /\ UNCHANGED <<auxVars, opts, cancelled, cancelPc, mainVars, taskVars, wp, nextId,
                 flushes, held, errchClosed, panicked>>

\* the lines and calls of the loop over the instances ps, from index i:
\* for each instance the progress lines of the adds, handleAdds, the
\* progress lines of the removes, handleRemoves; ra and rr give what
\* handleAdds and handleRemoves return for each instance, and an error is
\* written and the loop goes on
RECURSIVE SyncStopsAtError(_, _, _, _, _, _)
SyncStopsAtError(ps, i, as, rs, ra, rr) ==
  IF i > Len(ps) THEN <<>>
  ELSE AddMessages(as)
         \o <<Entry("handleAdds", ps[i], Len(as), ra[i])>>
         \o (IF ra[i] = "nil"
               THEN RemoveMessages(rs)
                      \o <<Entry("handleRemoves", ps[i], Len(rs), rr[i])>>
                      \o (IF rr[i] = "nil"
                            THEN SyncStopsAtError(ps, i + 1, as, rs, ra, rr)
                            ELSE <<Message("sync remove error", 0)>>)
               ELSE <<Message("sync add error", 0)>>)

RECURSIVE Sync(_, _, _, _, _, _)
Sync(ps, i, as, rs, ra, rr) ==
  IF i > Len(ps) THEN <<>>
  ELSE AddMessages(as)
         \o <<Entry("handleAdds", ps[i], Len(as), ra[i])>>
         \o (IF ra[i] = "nil" THEN <<>>
             ELSE <<Message("sync add error", 0)>>)
         \o RemoveMessages(rs)
         \o <<Entry("handleRemoves", ps[i], Len(rs), rr[i])>>
         \o (IF rr[i] = "nil" THEN <<>>
             ELSE <<Message("sync remove error", 0)>>)
         \o Sync(ps, i + 1, as, rs, ra, rr)

\* the batch after a tick on which ProcessList returned ok or failed
BatchAfterTickNeverReset(cs, ok) == cs

BatchAfterTickDropsOnError(cs, ok) == <<>>

BatchAfterTick(cs, ok) == IF ok THEN <<>> ELSE cs

\* watchPath: the select takes <-tick: nothing for an empty batch; else
\* ProcessList; if it fails a line is written and the batch kept, else the
\* batch is partitioned, synced to every instance and reset
WatchPathTick(t) ==
  /\ wp[t] = "select"
  /\ IF Len(chgs[t]) = 0
       THEN /\ log' = [log EXCEPT ![t] = <<>>]
            /\ UNCHANGED <<chgs, flushes, held>>
       ELSE \E ok \in BOOLEAN, n \in 0 .. MaxInstances :
              LET ps == [i \in 1 .. n |-> i]
                  as == Partition(chgs[t]).adds
                  rs == Partition(chgs[t]).removes
              IN /\ chgs' = [chgs EXCEPT ![t] = BatchAfterTick(@, ok)]
                 /\ IF ~ok
                      THEN /\ log' = [log EXCEPT ![t] =
                                        <<Entry("ProcessList", 0, 0, "error"),
                                          Message("sync error", 0)>>]
                           /\ held' = [held EXCEPT ![t] = Len(chgs[t])]
                           /\ UNCHANGED flushes
                      ELSE /\ flushes' = Flushed(flushes, chgs[t])
                           /\ UNCHANGED held
                           /\ \E ra \in [1 .. n -> HandleResults(as)],
                                 rr \in [1 .. n -> HandleResults(rs)] :
                                log' = [log EXCEPT ![t] =
                                          <<Entry("ProcessList", 0, n, "nil"),
                                            Entry("adds", 0, Len(as), ""),
                                            Entry("removes", 0, Len(rs), "")>>
                                            \o Sync(ps, 1, as, rs, ra, rr)]
  /\ UNCHANGED <<auxVars, opts, cancelled, cancelPc, mainVars, taskVars, wp, cch,
                 nextId, errchClosed, panicked>>

(***************************************************************************)
(* buildSources.                                                           *)
(***************************************************************************)
\* svc.Build.Path and the working directory of the program
BuildPath == Dot

Cwd == P(TRUE, <<"w">>, FALSE)

\* the directories and the files os.Stat finds
FsDirs == {<<"w">>, <<"w", "lib">>, <<"w", "lib", "sub">>}

FsFiles == {<<"w", "main.go">>}

\* filepath.Clean of a path that is not ""
Clean(x) == P(x.abs, x.segs, FALSE)

\* filepath.Join(a, b)
FilepathJoin(a, b) ==
  IF a.kind = "empty" THEN (IF b.kind = "empty" THEN Empty ELSE Clean(b))
  ELSE IF b.kind = "empty" THEN Clean(a)
  ELSE P(a.abs, a.segs \o b.segs, FALSE)

\* filepath.Abs(x)
FilepathAbs(x) == IF x.abs THEN Clean(x) ELSE FilepathJoin(Cwd, x)

\* os.Stat(x) of an absolute path
Stat(x) ==
  IF x.segs \in FsDirs THEN "dir"
  ELSE IF x.segs \in FsFiles THEN "file" ELSE "error"

\* strings.HasPrefix(a, b) of two paths
HasPrefix(a, b) ==
  /\ a.abs = b.abs
  /\ Len(b.segs) <= Len(a.segs)
  /\ SubSeq(a.segs, 1, Len(b.segs)) = b.segs
  /\ b.slash => (Len(b.segs) < Len(a.segs) \/ a.slash)

\* the number of leading segments two paths share
CommonLen(x, y) ==
  CHOOSE k \in 0 .. Len(x) :
    /\ k <= Len(y)
    /\ SubSeq(x, 1, k) = SubSeq(y, 1, k)
    /\ (k < Len(x) /\ k < Len(y)) => x[k + 1] # y[k + 1]

\* filepath.Rel(base, targ): the number of ".." and the segments after them
FilepathRel(base, targ) ==
  IF base.abs # targ.abs THEN [err |-> TRUE, ups |-> 0, segs |-> <<>>]
  ELSE LET c == CommonLen(base.segs, targ.segs)
       IN [err |-> FALSE, ups |-> Len(base.segs) - c,
           segs |-> SubSeq(targ.segs, c + 1, Len(targ.segs))]

\* the variable a segment `$NAME` or `${NAME}` refers to
EnvRef == [ref \in {"$DIR", "${DIR}"} |-> "DIR"]

\* replaceEnv(s, e), for variables whose values name one segment
replaceEnv(s, e) ==
  Field(s.kind, s.name, s.abs,
        [i \in 1 .. Len(s.segs) |->
           IF s.segs[i] \in DOMAIN EnvRef /\ EnvRef[s.segs[i]] \in DOMAIN e
             THEN e[EnvRef[s.segs[i]]]
             ELSE s.segs[i]],
        s.slash)

\* reDockerOption.FindStringSubmatch(p) finds an option; m[1] is p.name
reDockerOption(p) == p.kind = "option"

\* parts = append(parts[:k], parts[k+1:]...) in the backing array of parts,
\* of which the first len elements are parts (k counts from 1)
RemoveAt(array, len, k) ==
  [j \in 1 .. Len(array) |->
     IF j >= k /\ j < len THEN array[j + 1] ELSE array[j]]

RECURSIVE StripOptions(_, _, _)
\* for i, p := range parts: the range is over the backing array and the
\* length parts had at first; an option named from skips the line, another
\* option is removed from parts, which panics when parts has become
\* shorter than i+1
StripOptions(array, len, k) ==
  IF k > Len(array) THEN [res |-> "ok", parts |-> SubSeq(array, 1, len)]
  ELSE IF reDockerOption(array[k])
         THEN IF array[k].name = "from"
                THEN [res |-> "from", parts |-> <<>>]
                ELSE IF k > len THEN [res |-> "panic", parts |-> <<>>]
                     ELSE StripOptions(RemoveAt(array, len, k), len - 1, k + 1)
         ELSE StripOptions(array, len, k + 1)

\* one buildSource
BuildSource(local, remote) == [Local |-> local, Remote |-> remote]

\* case "ADD", "COPY": what the line adds to bs, or how it ends
AddCopy(parts, e, w) ==
  LET o == StripOptions(parts, Len(parts), 1)
      ps == o.parts
      nothing == [res |-> "next", add |-> <<>>]
  IN CASE o.res = "from" -> nothing
       [] o.res = "panic" -> [res |-> "panic", add |-> <<>>]
       [] OTHER ->
            IF Len(ps) <= 2 THEN nothing
            ELSE IF ps[2].kind = "malformed"
              THEN [res |-> "url.Parse", add |-> <<>>]
            ELSE IF ps[2].kind = "option" /\ ps[2].name = "from"
              THEN nothing
            ELSE IF ps[2].kind = "url" /\ ps[2].name \in {"http", "https"}
              THEN nothing
            ELSE LET local == FilepathJoin(BuildPath, ps[2])
                     r == replaceEnv(ps[3], e)
                     remote == IF w.kind # "empty" /\ ~r.abs
                                 THEN FilepathJoin(w, r) ELSE r
                 IN [res |-> "next", add |-> <<BuildSource(local, remote)>>]

\* env[key] = val
SetEnv(e, key, val) ==
  [k \in DOMAIN e \cup {key} |-> IF k = key THEN val ELSE e[k]]

RECURSIVE MergeEnv(_, _)
\* the entries KEY=value of the image are put in env, in order
MergeEnv(e, ee) ==
  IF ee = <<>> THEN e
  ELSE MergeEnv(IF Head(ee).eq THEN SetEnv(e, Head(ee).key, Head(ee).val)
                ELSE e,
                Tail(ee))

\* what docker inspect can give for an image: the entries of .Config.Env
\* and .Config.WorkingDir
ImageEnvs ==
  {<<>>,
   <<[key |-> "DIR", val |-> "opt", eq |-> TRUE]>>,
   <<[key |-> "DIR", val |-> "opt", eq |-> TRUE],
     [key |-> "HOME", val |-> "", eq |-> FALSE]>>}

ImageWds == {Empty, P(TRUE, <<"srv">>, FALSE)}

InspectEnvResults == {"error", "not json", "ok"}

\* case "FROM": eres is how the inspection of the environment ends and ee
\* what it gives, wok and iw the same for the working directory
FromLineEnvFatal(e, w, eres, ee, wok, iw) ==
  IF eres # "ok" THEN [res |-> "error", env |-> e, wd |-> w]
  ELSE IF ~wok THEN [res |-> "error", env |-> MergeEnv(e, ee), wd |-> w]
  ELSE [res |-> "next", env |-> MergeEnv(e, ee), wd |-> iw]

FromLine(e, w, eres, ee, wok, iw) ==
  IF eres = "error" THEN [res |-> "next", env |-> e, wd |-> w]
  ELSE IF eres = "not json" THEN [res |-> "error", env |-> e, wd |-> w]
  ELSE IF ~wok THEN [res |-> "error", env |-> MergeEnv(e, ee), wd |-> w]
  ELSE [res |-> "next", env |-> MergeEnv(e, ee), wd |-> iw]

\* strings.ToUpper(parts[0])
Instruction(parts) == parts[1].segs[1]

\* buildSources: buildDockerfile: an error, no file for a service with an
\* image, or the lines of the file
BuildSourcesStart ==
  /\ bsPc = "start"
  /\ \E r \in {"buildDockerfile", "image", "ok"} :
       /\ bsPc' = IF r = "ok" THEN (IF df = <<>> THEN "resolve" ELSE "scan")
                  ELSE "done"
       /\ bsErr' = IF r = "buildDockerfile" THEN r ELSE ""
  /\ UNCHANGED <<envVars, addsVars, streamVars, df, bsLine, bs, env, wd, bss, inspected, opts,
                 cancelled, cancelPc, mainVars, taskVars, watchVars,
                 errchClosed, panicked>>

\* buildSources goes on to the next line, or to the loops after the last
ScanNext ==
  /\ bsLine' = bsLine + 1
  /\ bsPc' = IF bsLine = Len(df) THEN "resolve" ELSE "scan"
  /\ UNCHANGED bsErr

\* buildSources returns nil and an error, or panics
ScanEnd(e) ==
  /\ bsPc' = "done"
  /\ bsErr' = e
  /\ UNCHANGED bsLine

\* what is known of the inspections of an image: the environment only if
\* that inspection gave one, the working directory only if both did
Inspection(eres, ee, wok, iw) ==
  [eres |-> eres,
   ee |-> IF eres = "ok" THEN ee ELSE <<>>,
   wres |-> IF eres = "ok" THEN (IF wok THEN "ok" ELSE "error") ELSE "none",
   iw |-> IF eres = "ok" /\ wok THEN iw ELSE Empty]

\* buildSources: one line of the file
BuildSourcesLine ==
  /\ bsPc = "scan"
  /\ LET parts == df[bsLine]
     IN IF Len(parts) < 1
          THEN ScanNext /\ UNCHANGED <<bs, env, wd, inspected>>
          ELSE CASE Instruction(parts) \in {"ADD", "COPY"} ->
                      LET r == AddCopy(parts, env, wd)
                      IN /\ bs' = bs \o r.add
                         /\ IF r.res = "next" THEN ScanNext
                            ELSE ScanEnd(r.res)
                         /\ UNCHANGED <<env, wd, inspected>>
                 [] Instruction(parts) = "ENV" ->
                      /\ env' = IF Len(parts) > 2
                                  THEN SetEnv(env, parts[2].segs[1],
                                              parts[3].segs[1])
                                  ELSE env
                      /\ ScanNext
                      /\ UNCHANGED <<bs, wd, inspected>>
                 [] Instruction(parts) = "FROM" ->
                      IF Len(parts) > 1
                        THEN \E eres \in InspectEnvResults,
                                ee \in ImageEnvs, wok \in BOOLEAN,
                                iw \in ImageWds :
                               LET r == FromLine(env, wd, eres, ee, wok, iw)
                               IN /\ env' = r.env
                                  /\ wd' = r.wd
                                  /\ inspected' = Inspection(eres, ee, wok, iw)
                                  /\ IF r.res = "next" THEN ScanNext
                                     ELSE ScanEnd("inspect")
                                  /\ UNCHANGED bs
                        ELSE ScanNext /\ UNCHANGED <<bs, env, wd, inspected>>
                 [] Instruction(parts) = "WORKDIR" ->
                      /\ wd' = IF Len(parts) > 1 THEN replaceEnv(parts[2], env)
                               ELSE wd
                      /\ ScanNext
                      /\ UNCHANGED <<bs, env, inspected>>
                 [] OTHER -> ScanNext /\ UNCHANGED <<bs, env, wd, inspected>>
  /\ UNCHANGED <<envVars, addsVars, streamVars, df, bss, opts, cancelled, cancelPc, mainVars,
                 taskVars, watchVars, errchClosed, panicked>>

\* bs[i] after the loop that resolves it: Local absolute, with a trailing
\* slash if a directory; Remote "." replaced by wd
Resolved(b, w) ==
  LET abs == FilepathAbs(b.Local)
  IN BuildSource(P(TRUE, abs.segs, Stat(abs) = "dir"),
                 IF b.Remote = Dot THEN w ELSE b.Remote)

\* buildSources: the loop that resolves every bs[i]: filepath.Abs and
\* os.Stat can fail
BuildSourcesResolve ==
  /\ bsPc = "resolve"
  /\ \E r \in {"ok"} \cup (IF bs # <<>> THEN {"Abs"} ELSE {}) :
       IF r = "Abs"
         THEN bsPc' = "done" /\ bsErr' = r /\ UNCHANGED bs
       ELSE IF \E i \in 1 .. Len(bs) : Stat(FilepathAbs(bs[i].Local)) = "error"
         THEN bsPc' = "done" /\ bsErr' = "Stat" /\ UNCHANGED bs
         ELSE /\ bsPc' = "dedup"
              /\ bs' = [i \in 1 .. Len(bs) |-> Resolved(bs[i], wd)]
              /\ UNCHANGED bsErr
  /\ UNCHANGED <<envVars, addsVars, streamVars, df, bsLine, env, wd, bss, inspected, opts,
                 cancelled, cancelPc, mainVars, taskVars, watchVars,
                 errchClosed, panicked>>

\* the j after i at which the inner loop of the dedup ends for bs[i]:
\* Local of bs[j] is a prefix of Local of bs[i], and the Remotes are equal,
\* or filepath.Rel fails, or the two relative paths are equal
Decisive(list, i) ==
  {j \in i + 1 .. Len(list) :
     /\ HasPrefix(list[i].Local, list[j].Local)
     /\ \/ list[i].Remote = list[j].Remote
        \/ FilepathRel(list[j].Remote, list[i].Remote).err
        \/ FilepathRel(list[j].Local, list[i].Local)
             = FilepathRel(list[j].Remote, list[i].Remote)}

\* what the inner loop finds for bs[i]
Contained(list, i) ==
  IF Decisive(list, i) = {} THEN "keep"
  ELSE LET j == CHOOSE m \in Decisive(list, i) :
                  \A n \in Decisive(list, i) : m <= n
       IN IF list[i].Remote = list[j].Remote THEN "contained"
          ELSE IF FilepathRel(list[j].Remote, list[i].Remote).err
                 THEN "error"
                 ELSE "contained"

RECURSIVE Kept(_, _)
\* bss: the bs[i] no later bs[j] contains, from index i, in order
Kept(list, i) ==
  IF i > Len(list) THEN <<>>
  ELSE (IF Contained(list, i) = "keep" THEN <<list[i]>> ELSE <<>>)
         \o Kept(list, i + 1)

\* buildSources: the loop that leaves out every bs[i] a later bs[j]
\* contains
BuildSourcesDedup ==
  /\ bsPc = "dedup"
  /\ bsPc' = "done"
  /\ IF \E i \in 1 .. Len(bs) : Contained(bs, i) = "error"
       THEN bsErr' = "Rel" /\ UNCHANGED bss
       ELSE bss' = Kept(bs, 1) /\ UNCHANGED bsErr
  /\ UNCHANGED <<envVars, addsVars, streamVars, df, bsLine, bs, env, wd, inspected, opts,
                 cancelled, cancelPc, mainVars, taskVars, watchVars,
                 errchClosed, panicked>>

\* the fields of the build-instruction files below
Keyword(w) == P(FALSE, <<w>>, FALSE)

OptFrom == Field("option", "from", FALSE, <<"--from=build">>, FALSE)

OptChown == Field("option", "chown", FALSE, <<"--chown=app">>, FALSE)

Lib == P(FALSE, <<"lib">>, FALSE)

Sub == P(FALSE, <<"lib", "sub">>, FALSE)

App == P(TRUE, <<"app">>, FALSE)

AppLib == P(TRUE, <<"app", "lib">>, FALSE)

CopyLine(fields) == <<Keyword("COPY")>> \o fields

AddLine(fields) == <<Keyword("ADD")>> \o fields

FromImage == <<Keyword("FROM"), Keyword("image")>>

EnvDir == <<Keyword("ENV"), Keyword("DIR"), Keyword("etc")>>

Workdir(dir) == <<Keyword("WORKDIR"), dir>>

\* the sequences of at most n elements of S
Seqs(S, n) == UNION {[1 .. k -> S] : k \in 0 .. n}

\* files of one COPY line with options, sources and destinations in any
\* number and order
CopyFields == {OptFrom, OptChown, Lib, App}

CopyFiles == {<<CopyLine(f)>> : f \in Seqs(CopyFields, MaxFields)}

\* files with a FROM line, ENV and WORKDIR lines around it, and an ADD line
Preambles == {<<>>, <<EnvDir>>, <<Workdir(P(TRUE, <<"usr">>, FALSE))>>}

FromDsts == {Dot, Lib, P(TRUE, <<"app">>, TRUE), P(TRUE, <<"${DIR}">>, FALSE)}

FromFiles ==
  {pre \o <<FromImage>> \o post \o <<AddLine(<<Lib, dst>>)>> :
     pre \in Preambles, post \in Preambles, dst \in FromDsts}

\* files of an ADD line whose source is no local path, and a blank line
OtherFiles ==
  {<<AddLine(<<Field("url", "https", FALSE, <<"https://host/file">>, FALSE),
               App>>)>>,
   <<AddLine(<<Field("malformed", "", FALSE, <<":">>, FALSE), App>>)>>,
   <<<<>>, <<Keyword("RUN"), Keyword("make")>>>>}

\* files of COPY lines of nested and unrelated directories, after a
\* WORKDIR line or none
DedupLines ==
  {CopyLine(<<src, dst>>) :
     src \in {Dot, Lib, Sub},
     dst \in {App, AppLib, P(TRUE, <<"x">>, FALSE), Lib}}

DedupFiles ==
  {pre \o c : pre \in {<<>>, <<Workdir(App)>>},
              c \in Seqs(DedupLines, MaxCopies)}

Dockerfiles == CopyFiles \cup FromFiles \cup OtherFiles \cup DedupFiles

(***************************************************************************)
(* buildSources on one build-instruction file.                             *)
(***************************************************************************)
InitSources ==
  /\ opts = [Build |-> FALSE, External |-> FALSE]
  /\ cancelled = FALSE
  /\ cancelPc = ""
  /\ pc = "block"
  /\ trail = {"start", "setup", "spawn", "waitRunning"}
  /\ observed = ""
  /\ app = "unread"
  /\ result = "pending"
  /\ wfb = "pending"
  /\ polls = <<>>
  /\ promotes = <<>>
  /\ copying = FALSE
  /\ logs = "select"
  /\ he = "select"
  /\ errchClosed = FALSE
  /\ printed = {}
  /\ panicked = FALSE
  /\ wc = [s \in Services |-> IF s = "web" THEN "setup" ELSE "done"]
  /\ wp = [t \in Tasks |-> "idle"]
  /\ cch = [t \in Tasks |-> <<>>]
  /\ chgs = [t \in Tasks |-> <<>>]
  /\ log = [t \in Tasks |-> <<>>]
  /\ nextId = 1
  /\ flushes = [i \in {} |-> 0]
  /\ held = [t \in Tasks |-> 0]
  /\ fetches = <<>>
  /\ naps = 0
  /\ scanned = NoLine
  /\ df \in Dockerfiles
  /\ bsPc = "start"
  /\ bsLine = 1
  /\ bs = <<>>
  /\ env = NoEnv
  /\ wd = Empty
  /\ bss = <<>>
  /\ bsErr = ""
  /\ inspected = NoInspection
  /\ IdleAdds
  /\ IdleEnv

NextSources ==
  \/ BuildSourcesStart
  \/ BuildSourcesLine
  \/ BuildSourcesResolve
  \/ BuildSourcesDedup

SpecSources == InitSources /\ [][NextSources]_vars

(***************************************************************************)
(* handleAdds and its upload task.  A Write on the pipe returns when the   *)
(* reader has taken the bytes, or with an error when the read end is       *)
(* closed; a Read returns what a Write offers, or the end of the stream    *)
(* when the write end is closed.  FilesUpload is given the read end: it    *)
(* reads the stream to its end, or fails before that, with or without      *)
(* closing the read end.                                                   *)
(***************************************************************************)
\* handleAdds returns v
HandleAddsReturn(v) == ha' = "done" /\ haRet' = v

\* the position of the loop over adds after adds[idx]
AfterAdd == IF idx = nadds THEN "twClose" ELSE "stat"

\* a Write on the pipe can return: with the bytes taken, or with an error
CanWrite == up = "read" \/ pipe.r = "closed"

\* handleAdds: nothing for no adds; else pwd for a relative remote, the
\* pipe, and go FilesUpload
HandleAddsEntry ==
  /\ ha = "start"
  /\ IF nadds = 0
       THEN HandleAddsReturn("nil") /\ UNCHANGED <<up, pipe>>
       ELSE \E r \in {"ok", "pwd"} :
              IF r = "pwd"
                THEN HandleAddsReturn(r) /\ UNCHANGED <<up, pipe>>
                ELSE /\ ha' = "stat"
                     /\ up' = "read"
                     /\ pipe' = [w |-> "open", r |-> "open"]
                     /\ UNCHANGED haRet
  /\ UNCHANGED <<envVars, streamVars, srcVars, upRes, twErr, nadds, idx, tar, opts,
                 cancelled, cancelPc, mainVars, taskVars, watchVars,
                 errchClosed, panicked>>

\* handleAdds: os.Stat of adds[idx]: a file that is gone is skipped, another
\* error is returned
HandleAddsStat ==
  /\ ha = "stat"
  /\ \E r \in {"ok", "not exist", "Stat"} :
       CASE r = "ok" -> ha' = "header" /\ UNCHANGED <<haRet, idx>>
         [] r = "not exist" ->
              ha' = AfterAdd /\ idx' = idx + 1 /\ UNCHANGED haRet
         [] OTHER -> HandleAddsReturn(r) /\ UNCHANGED idx
  /\ UNCHANGED <<envVars, streamVars, srcVars, up, upRes, pipe, twErr, nadds, tar,
                 opts, cancelled, cancelPc, mainVars, taskVars, watchVars,
                 errchClosed, panicked>>

\* handleAdds: tw.WriteHeader writes the header on the pipe; its error is
\* not looked at, the tar writer keeps it
HandleAddsHeader ==
  /\ ha = "header"
  /\ CanWrite
  /\ ha' = "open"
  /\ IF pipe.r = "closed"
       THEN twErr' = TRUE /\ UNCHANGED tar
       ELSE tar' = Append(tar, idx) /\ UNCHANGED twErr
  /\ UNCHANGED <<envVars, streamVars, srcVars, haRet, up, upRes, pipe, nadds, idx,
                 opts, cancelled, cancelPc, mainVars, taskVars, watchVars,
                 errchClosed, panicked>>

\* handleAdds: os.Open of adds[idx]
HandleAddsOpen ==
  /\ ha = "open"
  /\ \E r \in {"ok", "Open"} :
       IF r = "ok" THEN ha' = "copy" /\ UNCHANGED haRet
       ELSE HandleAddsReturn(r)
  /\ UNCHANGED <<envVars, streamVars, srcVars, up, upRes, pipe, twErr, nadds, idx,
                 tar, opts, cancelled, cancelPc, mainVars, taskVars,
                 watchVars, errchClosed, panicked>>

\* handleAdds: io.Copy(tw, fd): the file is read and written on the pipe;
\* the read can fail, the write fails if the header did or the read end is
\* closed
HandleAddsCopy ==
  /\ ha = "copy"
  /\ \E r \in {"ok", "Copy"} :
       IF r = "ok"
         THEN /\ ~twErr
              /\ up = "read"
              /\ pipe.r # "closed"
              /\ ha' = AfterAdd
              /\ idx' = idx + 1
              /\ UNCHANGED haRet
         ELSE HandleAddsReturn(r) /\ UNCHANGED idx
  /\ UNCHANGED <<envVars, streamVars, srcVars, up, upRes, pipe, twErr, nadds, tar,
                 opts, cancelled, cancelPc, mainVars, taskVars, watchVars,
                 errchClosed, panicked>>

\* handleAdds: tw.Close writes the end of the archive on the pipe
HandleAddsTwClose ==
  /\ ha = "twClose"
  /\ twErr \/ CanWrite
  /\ IF twErr \/ pipe.r = "closed"
       THEN HandleAddsReturn("tw.Close")
       ELSE ha' = "wpClose" /\ UNCHANGED haRet
  /\ UNCHANGED <<envVars, streamVars, srcVars, up, upRes, pipe, twErr, nadds, idx,
                 tar, opts, cancelled, cancelPc, mainVars, taskVars,
                 watchVars, errchClosed, panicked>>

\* handleAdds: wp.Close, which returns no error
HandleAddsWpClose ==
  /\ ha = "wpClose"
  /\ ha' = "recv"
  /\ pipe' = [pipe EXCEPT !.w = "closed"]
  /\ UNCHANGED <<envVars, streamVars, srcVars, haRet, up, upRes, twErr, nadds, idx,
                 tar, opts, cancelled, cancelPc, mainVars, taskVars,
                 watchVars, errchClosed, panicked>>

\* return <-ch of handleAdds meets ch <- of the upload task, which then
\* closes ch and ends (ch is unbuffered)
HandleAddsRecv ==
  /\ ha = "recv"
  /\ up = "send"
  /\ HandleAddsReturn(upRes)
  /\ up' = "done"
  /\ UNCHANGED <<envVars, streamVars, srcVars, upRes, pipe, twErr, nadds, idx, tar,
                 opts, cancelled, cancelPc, mainVars, taskVars, watchVars,
                 errchClosed, panicked>>

\* the upload task: FilesUpload fails before the end of the stream and
\* returns, having closed the read end or not
UploadFails ==
  /\ up = "read"
  /\ up' = "send"
  /\ upRes' = "FilesUpload"
  /\ \E closes \in BOOLEAN :
       pipe' = IF closes THEN [pipe EXCEPT !.r = "closed"] ELSE pipe
  /\ UNCHANGED <<envVars, streamVars, srcVars, ha, haRet, twErr, nadds, idx, tar,
                 opts, cancelled, cancelPc, mainVars, taskVars, watchVars,
                 errchClosed, panicked>>

\* the upload task: FilesUpload reads the end of the stream and returns
UploadEnds ==
  /\ up = "read"
  /\ pipe.w = "closed"
  /\ up' = "send"
  /\ \E r \in {"nil", "FilesUpload"} : upRes' = r
  /\ UNCHANGED <<envVars, streamVars, srcVars, ha, haRet, pipe, twErr, nadds, idx,
                 tar, opts, cancelled, cancelPc, mainVars, taskVars,
                 watchVars, errchClosed, panicked>>

(***************************************************************************)
(* One call of handleAdds by a watch task, in a session that blocks.       *)
(***************************************************************************)
InitAdds ==
  /\ opts = [Build |-> FALSE, External |-> FALSE]
  /\ cancelled = FALSE
  /\ cancelPc = ""
  /\ pc = "block"
  /\ trail = {"start", "setup", "spawn", "waitRunning"}
  /\ observed = ""
  /\ app = "unread"
  /\ result = "pending"
  /\ wfb = "pending"
  /\ polls = <<>>
  /\ promotes = <<>>
  /\ copying = FALSE
  /\ logs = "select"
  /\ he = "select"
  /\ errchClosed = FALSE
  /\ printed = {}
  /\ panicked = FALSE
  /\ wc = [s \in Services |-> "done"]
  /\ wp = [t \in Tasks |-> IF t = <<"web", 1>> THEN "select" ELSE "idle"]
  /\ cch = [t \in Tasks |-> <<>>]
  /\ chgs = [t \in Tasks |-> <<>>]
  /\ log = [t \in Tasks |-> <<>>]
  /\ nextId = 1
  /\ flushes = [i \in {} |-> 0]
  /\ held = [t \in Tasks |-> 0]
  /\ fetches = <<>>
  /\ naps = 0
  /\ scanned = NoLine
  /\ IdleSources
  /\ ha = "start"
  /\ haRet = "pending"
  /\ up = "idle"
  /\ upRes = "pending"
  /\ pipe = [w |-> "none", r |-> "none"]
  /\ twErr = FALSE
  /\ nadds \in 0 .. MaxAdds
  /\ idx = 1
  /\ tar = <<>>
  /\ IdleEnv

NextAdds ==
  \/ HandleAddsEntry
  \/ HandleAddsStat
  \/ HandleAddsHeader
  \/ HandleAddsOpen
  \/ HandleAddsCopy
  \/ HandleAddsTwClose
  \/ HandleAddsWpClose
  \/ HandleAddsRecv
  \/ UploadFails
  \/ UploadEnds

SpecAdds == InitAdds /\ [][NextAdds]_vars

(***************************************************************************)
(* replaceEnv on strings.  A string is the sequence of its characters; the *)
(* name PORT is written as the one character "PORT" and the name PORT_X as *)
(* "PORT" followed by "_X", so that PORT is a prefix of PORT_X.  range     *)
(* over a map visits every key once, in an order that is not specified.    *)
(***************************************************************************)
\* old is in s at position i
OccursAt(s, i, old) ==
  /\ i + Len(old) - 1 <= Len(s)
  /\ SubSeq(s, i, i + Len(old) - 1) = old

\* strings.Replace(s, old, new, -1) for a non-empty old: the occurrences of
\* old that do not overlap, from the left
RECURSIVE StringsReplace(_, _, _)
StringsReplace(s, old, new) ==
  IF s = <<>> THEN <<>>
  ELSE IF OccursAt(s, 1, old)
    THEN new \o StringsReplace(SubSeq(s, Len(old) + 1, Len(s)), old, new)
  ELSE <<s[1]>> \o StringsReplace(Tail(s), old, new)

\* fmt.Sprintf("${%s}", k) and fmt.Sprintf("$%s", k)
Braced(k) == <<"$", "{">> \o k \o <<"}">>

Bare(k) == <<"$">> \o k

\* the body of the loop of replaceEnv for the entry k, v
ReplaceEnvEntry(s, k, v) ==
  StringsReplace(StringsReplace(s, Braced(k), v), Bare(k), v)

\* the characters of the strings, the names and the values of the variables
Chars == {"$", "{", "}", "PORT", "_X", "/"}

VarNames == {<<"PORT">>, <<"PORT", "_X">>}

VarValues == {<<"8">>, <<"$", "PORT">>, <<"$", "{", "PORT", "_X", "}">>}

\* the strings of at most MaxDst characters, and the maps
Dsts == UNION {[1 .. n -> Chars] : n \in 0 .. MaxDst}

Envs == UNION {[ks -> VarValues] : ks \in SUBSET VarNames}

\* replaceEnv is called with reS and reEnv
ReplaceEnvCall ==
  /\ rePc = "idle"
  /\ rePc' = "range"
  /\ reCur' = reS
  /\ reLeft' = DOMAIN reEnv
  /\ UNCHANGED <<streamVars, srcVars, addsVars, reS, reEnv, reOuts, opts,
                 cancelled, cancelPc, mainVars, taskVars, watchVars,
                 errchClosed, panicked>>

\* replaceEnv: range visits one more entry, any of those left
ReplaceEnvVisit ==
  /\ rePc = "range"
  /\ \E k \in reLeft :
       /\ reCur' = ReplaceEnvEntry(reCur, k, reEnv[k])
       /\ reLeft' = reLeft \ {k}
  /\ UNCHANGED <<streamVars, srcVars, addsVars, reS, reEnv, rePc, reOuts,
                 opts, cancelled, cancelPc, mainVars, taskVars, watchVars,
                 errchClosed, panicked>>

\* replaceEnv: every entry was visited, return s
ReplaceEnvReturn ==
  /\ rePc = "range"
  /\ reLeft = {}
  /\ rePc' = "idle"
  /\ reOuts' = reOuts \cup {reCur}
  /\ UNCHANGED <<streamVars, srcVars, addsVars, reS, reEnv, reCur, reLeft,
                 opts, cancelled, cancelPc, mainVars, taskVars, watchVars,
                 errchClosed, panicked>>

(***************************************************************************)
(* Calls of replaceEnv with one string and one map, by buildSources of the *)
(* service web.                                                            *)
(***************************************************************************)
InitEnv ==
  /\ opts = [Build |-> FALSE, External |-> FALSE]
  /\ cancelled = FALSE
  /\ cancelPc = ""
  /\ pc = "block"
  /\ trail = {"start", "setup", "spawn", "waitRunning"}
  /\ observed = ""
  /\ app = "unread"
  /\ result = "pending"
  /\ wfb = "pending"
  /\ polls = <<>>
  /\ promotes = <<>>
  /\ copying = FALSE
  /\ logs = "select"
  /\ he = "select"
  /\ errchClosed = FALSE
  /\ printed = {}
  /\ panicked = FALSE
  /\ wc = [s \in Services |-> IF s = "web" THEN "setup" ELSE "done"]
  /\ wp = [t \in Tasks |-> "idle"]
  /\ cch = [t \in Tasks |-> <<>>]
  /\ chgs = [t \in Tasks |-> <<>>]
  /\ log = [t \in Tasks |-> <<>>]
  /\ nextId = 1
  /\ flushes = [i \in {} |-> 0]
  /\ held = [t \in Tasks |-> 0]
  /\ fetches = <<>>
  /\ naps = 0
  /\ scanned = NoLine
  /\ IdleSources
  /\ IdleAdds
  /\ reS \in Dsts
  /\ reEnv \in Envs
  /\ rePc = "idle"
  /\ reCur = <<>>
  /\ reLeft = {}
  /\ reOuts = {}

NextEnv ==
  \/ ReplaceEnvCall
  \/ ReplaceEnvVisit
  \/ ReplaceEnvReturn

SpecEnv == InitEnv /\ [][NextEnv]_vars

(***************************************************************************)
(* The session: Start2 with its build step, the cancellation signal, and   *)
(* the start and the end of every task.  The change events and ticks of a  *)
(* watch task read and write only that task's cch, chgs and log, and the   *)
(* loop of streamLogs only its own position and what it fetched and wrote, *)
(* which no action below reads: they are left to SpecWatch and SpecLogs.   *)
(***************************************************************************)
Next ==
  /\ ~panicked
  /\ \/ Cancel
     \/ Start2Entry
     \/ Start2Setup
     \/ BuildCreateUpload
     \/ BuildCreateStart
     \/ WaitForBuildCancelled
     \/ WaitForBuildTick
     \/ BuildCreateReread
     \/ BuildCreateExternal
     \/ Start2CheckCancelled
     \/ Start2Promote
     \/ Start2Spawn
     \/ Start2WaitForAppRunning
     \/ Start2Teardown
     \/ HandleErrorsCancelled
     \/ \E x \in Senders : ErrchSend(x)
     \/ \E x \in Senders : ErrchSendClosed(x)
     \/ \E s \in Services : WatchChangesSetup(s)
     \/ \E t \in Tasks : WatchPathSetup(t)
     \/ \E t \in Tasks : WatchPathCancelled(t)

Spec == Init /\ [][Next]_vars

(***************************************************************************)
(* Properties of the session.                                              *)
(***************************************************************************)
Last(q) == q[Len(q)]

Polling == {"created", "running"}

\* the errors the build step can end with
BuildErrors ==
  {"Tarball", "ObjectStore", "BuildCreate", "BuildLogs", "BuildGet",
   "build failed", "unknown build status"} \cup ExternalPcs

WatchersStarted ==
  \/ \E s \in Services : wc[s] # "idle"
  \/ \E t \in Tasks : wp[t] # "idle"

TasksStarted == logs # "idle" \/ he # "idle" \/ WatchersStarted

DevPromoted == \E i \in 1 .. Len(promotes) : promotes[i].Development

TeardownPromoted == \E i \in 1 .. Len(promotes) : ~promotes[i].Development

\* waitForBuild without a poll, or with a last status that keeps it polling:
\* it is still waiting, or BuildGet failed, or it took <-ctx.Done()
StillPolling == wfb \in {"pending", "BuildGet"} \/ (wfb = "nil" /\ cancelled)

\* C1: waitForBuild goes on polling only after created or running; the
\* first complete ends it with no error, the first failed with the
\* build-failure error, the first other status with the unknown-status
\* error, and no poll follows such a status.
C1_WaitForBuildPolling ==
  /\ \A i \in 1 .. Len(polls) - 1 : polls[i] \in Polling
  /\ polls = <<>> => StillPolling
  /\ polls # <<>> =>
       CASE Last(polls) \in Polling -> StillPolling
         [] Last(polls) = "complete" -> wfb = "nil"
         [] Last(polls) = "failed" -> wfb = "build failed"
         [] OTHER -> wfb = "unknown build status"

\* created, running, complete: success after exactly 3 polls
C1_Witness ==
  /\ polls = <<"created", "running", "complete">>
  /\ wfb = "nil"
  /\ ~cancelled

\* C2: when the build ends failed or with an unknown status, or a call of
\* buildCreate fails, Start2 returns that error, and then no ReleasePromote
\* was issued and no log-stream, error-aggregator or watch task was started.
C2_BuildFailureAborts ==
  /\ (polls # <<>> /\ Last(polls) \notin Polling \cup {"complete"}) =>
       /\ pc = "done"
       /\ result = IF Last(polls) = "failed" THEN "build failed"
                   ELSE "unknown build status"
  /\ wfb \notin {"pending", "nil"} => pc = "done" /\ result = wfb
  /\ (pc = "done" /\ result \in BuildErrors) =>
       promotes = <<>> /\ ~TasksStarted

C2_Witness ==
  /\ polls = <<"running", "failed">>
  /\ pc = "done"
  /\ result = "build failed"

\* Start2 has returned after taking a <-ctx.Done() past the build step
ReturnedAfterCancellation ==
  /\ pc = "done"
  /\ \/ observed \in {"waitRunning", "block"}
     \/ DevPromoted /\ observed # ""

\* C3: when Start2 returns after it observed the cancellation in a session
\* that got past the build step, it has read the application again and,
\* unless that failed or the application names no release, its last
\* ReleasePromote is the one with the development flag cleared.
C3_TeardownDemotes ==
  ReturnedAfterCancellation =>
    /\ app # "unread"
    /\ app \notin {"AppGet", ""} =>
         promotes # <<>> /\ Last(promotes) = TeardownPromoteOptions

\* a session with a build: development promotion, then the demotion
C3_Witness ==
  /\ pc = "done"
  /\ result = "nil"
  /\ promotes = <<DevPromoteOptions, TeardownPromoteOptions>>

\* the development promotion is issued at most once, first, with its flags
DevPromotionOnce ==
  /\ \A i \in 1 .. Len(promotes) : promotes[i].Development => i = 1
  /\ DevPromoted => promotes[1] = DevPromoteOptions /\ opts.Build

\* the tasks start only after the promotion, the demotion only after the
\* cancellation and the block
PhasesInOrder ==
  /\ (opts.Build /\ TasksStarted) => DevPromoted
  /\ TasksStarted => "spawn" \in trail
  /\ "block" \in trail => "waitRunning" \in trail
  /\ TeardownPromoted => cancelled /\ "block" \in trail

\* waitForBuild saw complete and buildCreate read the build record again
BuiltInPlatform ==
  /\ wfb = "nil"
  /\ polls # <<>>
  /\ Last(polls) = "complete"
  /\ "reread" \in trail

\* every call of buildCreateExternal succeeded
BuiltExternally == wfb = "pending" /\ ExternalPcs \subseteq trail

\* C4 as stated: the development promotion only after waitForBuild observed
\* complete and the build record was read again.
C4_Original ==
  /\ DevPromotionOnce
  /\ PhasesInOrder
  /\ DevPromoted => BuiltInPlatform

\* C4: the development promotion is issued at most once, before any task
\* is started, and only after the build step succeeded: in a platform build
\* after waitForBuild observed complete and the record was read again, in an
\* external build after every call of buildCreateExternal succeeded; in both
\* after the check of ctx; the demotion is issued only after cancellation.
C4_PhaseOrder ==
  /\ DevPromotionOnce
  /\ PhasesInOrder
  /\ DevPromoted =>
       /\ "checkCancelled" \in trail
       /\ IF opts.External THEN BuiltExternally ELSE BuiltInPlatform

\* an external build: promoted without waitForBuild, torn down at the end
C4_Witness ==
  /\ opts.External
  /\ wfb = "pending"
  /\ pc = "done"
  /\ Len(promotes) = 2

\* ctx was cancelled before Start2 began, or while waitForBuild waited and
\* waitForBuild returned on it
CancelledEarly ==
  \/ cancelPc = "start"
  \/ cancelPc = "waitForBuild" /\ observed = "waitForBuild"

\* C5: if ctx is cancelled before Start2 begins or while waitForBuild
\* waits, waitForBuild and Start2 return no error, there is no development
\* promotion and no watcher is started.
C5_CancelNeverError ==
  (CancelledEarly /\ pc = "done") =>
    /\ result = "nil"
    /\ wfb \in {"pending", "nil"}
    /\ promotes = <<>>
    /\ ~WatchersStarted


\* buildSources or buildIgnores failed for service s
ResolutionFailed(s) == wc[s] = "send" \/ <<s, 0>> \in printed

C17_ErrchSendsReceived ==
  result # "WaitForAppRunning" =>
    /\ ~panicked
    /\ \A x \in Senders : ~errchClosed /\ he = "select"

(***************************************************************************)
(* One watch task from its start, in a session without a build that has    *)
(* started its tasks and seen the application run: Start2 blocks until     *)
(* the cancellation and tears down, while the watch task of the one build  *)
(* source of service "web" runs.                                           *)
(***************************************************************************)
WatchTask == <<"web", 1>>

InitWatch ==
  /\ opts = [Build |-> FALSE, External |-> FALSE]
  /\ cancelled = FALSE
  /\ cancelPc = ""
  /\ pc = "block"
  /\ trail = {"start", "setup", "spawn", "waitRunning"}
  /\ observed = ""
  /\ app = "unread"
  /\ result = "pending"
  /\ wfb = "pending"
  /\ polls = <<>>
  /\ promotes = <<>>
  /\ copying = FALSE
  /\ logs = "select"
  /\ he = "select"
  /\ errchClosed = FALSE
  /\ printed = {}
  /\ panicked = FALSE
  /\ wc = [s \in Services |-> "done"]
  /\ wp = [t \in Tasks |-> IF t = WatchTask THEN "setup" ELSE "idle"]
  /\ cch = [t \in Tasks |-> <<>>]
  /\ chgs = [t \in Tasks |-> <<>>]
  /\ log = [t \in Tasks |-> <<>>]
  /\ nextId = 1
  /\ flushes = [i \in {} |-> 0]
  /\ held = [t \in Tasks |-> 0]
  /\ InitAux

NextWatch ==
  /\ ~panicked
  /\ \/ Cancel
     \/ Start2Teardown
     \/ HandleErrorsCancelled
     \/ \E x \in Senders : ErrchSend(x)
     \/ \E x \in Senders : ErrchSendClosed(x)
     \/ \E t \in Tasks : WatchPathSetup(t)
     \/ \E t \in Tasks : WatchEvent(t)
     \/ \E t \in Tasks : WatchPathCancelled(t)
     \/ \E t \in Tasks : WatchPathChange(t)
     \/ \E t \in Tasks : WatchPathTick(t)

SpecWatch == InitWatch /\ [][NextWatch]_vars


(***************************************************************************)
(* Properties of a watch task.                                             *)
(***************************************************************************)
\* the latest iteration of t's select loop was a tick with a batch
Ticked(t) == log[t] # <<>> /\ log[t][1].ev = "ProcessList"

TickedOk(t) == Ticked(t) /\ log[t][1].res = "nil"

TickedFailed(t) == Ticked(t) /\ log[t][1].res = "error"

\* of a flush: its instances, its adds and its removes
Instances(t) == log[t][1].n

NumAdds(t) == log[t][2].n

NumRemoves(t) == log[t][3].n

Count(l, evs) == Cardinality({i \in 1 .. Len(l) : l[i].ev \in evs})

IsCall(e) == e.ev \in {"handleAdds", "handleRemoves"}

Calls(l) == SelectSeq(l, IsCall)

\* the paths of the change events waiting in cch or in the batch
Pending(t) ==
  {cch[t][i].Path : i \in 1 .. Len(cch[t])}
    \cup {chgs[t][i].Path : i \in 1 .. Len(chgs[t])}

\* this step of t is a tick that calls ProcessList
FlushStarts(t) ==
  /\ wp[t] = "select"
  /\ log'[t] # log[t]
  /\ log'[t] # <<>>
  /\ log'[t][1].ev = "ProcessList"

\* C6: once ctx is cancelled, no watch task starts a flush (no ProcessList
\* call), also when a tick is ready together with the cancellation.
C6_NoFlushAfterCancel ==
  [][cancelled => \A t \in Tasks : ~FlushStarts(t)]_vars

\* C7 as stated: after every tick the batch is empty and every change that
\* left the batch was in exactly one flush.
C7_Original ==
  \A t \in Tasks :
    Ticked(t) =>
      /\ chgs[t] = <<>>
      /\ \A i \in DOMAIN flushes : flushes[i] = 1

\* C7: a tick with an empty batch does nothing; with a batch it calls
\* ProcessList: if that fails, one line is written and the batch is kept
\* as it is; if it succeeds, the batch is flushed and reset in the same
\* tick.  No change is in two flushes, a flushed change is in no batch, and
\* every change is pending or flushed.
C7_TickHandling ==
  /\ \A t \in Tasks :
       /\ TickedOk(t) =>
            /\ chgs[t] = <<>>
            /\ Len(log[t]) >= 3
            /\ NumAdds(t) + NumRemoves(t) >= 1
       /\ TickedFailed(t) =>
            /\ chgs[t] # <<>>
            /\ log[t] = <<Entry("ProcessList", 0, 0, "error"),
                          Message("sync error", 0)>>
       /\ Pending(t) \cap DOMAIN flushes = {}
  /\ \A i \in DOMAIN flushes : flushes[i] = 1
  /\ 1 .. (nextId - 1) = DOMAIN flushes \cup UNION {Pending(t) : t \in Tasks}

\* a failed ProcessList after an earlier flush: the batch is kept
C7_Witness ==
  /\ TickedFailed(WatchTask)
  /\ Len(chgs[WatchTask]) = 2
  /\ DOMAIN flushes = {1, 2}

LinesPerInstance(a) == IF a > 3 THEN 1 ELSE a

AddLines(t) == Count(log[t], {"sync summary", "sync file"})

\* C9 as stated: one flush writes one summary line for more than 3 adds and
\* one line per file for 1 to 3 adds, for any number of instances (at least
\* one).
C9_Original ==
  \A t \in Tasks :
    (TickedOk(t) /\ Instances(t) >= 1) =>
      AddLines(t) = LinesPerInstance(NumAdds(t))

\* C9: one flush writes, for each live instance and right before the
\* handleAdds of that instance, one summary line for more than 3 adds and
\* one line per file for 1 to 3 adds (none for no adds): n instances give n
\* times these lines, no instance gives none.
C9_ProgressPerInstance ==
  \A t \in Tasks :
    TickedOk(t) =>
      /\ AddLines(t) = Instances(t) * LinesPerInstance(NumAdds(t))
      /\ Count(log[t], {"sync summary"}) =
           IF NumAdds(t) > 3 THEN Instances(t) ELSE 0
      /\ \A k \in 1 .. Len(log[t]) :
           log[t][k].ev = "handleAdds" =>
             \A j \in 1 .. LinesPerInstance(NumAdds(t)) :
               /\ k - j >= 1
               /\ log[t][k - j].ev =
                    IF NumAdds(t) > 3 THEN "sync summary" ELSE "sync file"
      /\ \A k \in 1 .. Len(log[t]) :
           log[t][k].ev = "sync summary" => log[t][k].n = NumAdds(t)

\* 4 adds flushed to 2 instances: 2 summary lines
C9_Witness ==
  /\ TickedOk(WatchTask)
  /\ NumAdds(WatchTask) = 4
  /\ Instances(WatchTask) = 2
  /\ AddLines(WatchTask) = 2

\* this step of t is a tick on which ProcessList fails / succeeds
TickFails(t) == FlushStarts(t) /\ log'[t][1].res = "error"

TickFlushes(t) == FlushStarts(t) /\ log'[t][1].res = "nil"

\* the batch of t stays as it is, or gets one more change at its end
BatchGrows(t) ==
  \/ chgs'[t] = chgs[t]
  \/ /\ Len(chgs'[t]) = Len(chgs[t]) + 1
     /\ SubSeq(chgs'[t], 1, Len(chgs[t])) = chgs[t]

\* the paths of a batch
Paths(cs) == {cs[k].Path : k \in 1 .. Len(cs)}

\* C19: a tick on which ProcessList fails leaves the batch, the flushes and
\* the channel as they are, calls neither handleAdds nor handleRemoves and
\* leaves the task in its select loop; from then on the batch only grows at
\* its end, until a tick on which ProcessList succeeds, which flushes the
\* whole batch (the changes kept and those that came later) and resets it.
C19_FailedTickKeepsBatch ==
  [][\A t \in Tasks :
       /\ TickFails(t) =>
            /\ chgs'[t] = chgs[t]
            /\ chgs'[t] # <<>>
            /\ flushes' = flushes
            /\ cch'[t] = cch[t]
            /\ Calls(log'[t]) = <<>>
            /\ wp'[t] = "select"
       /\ TickFlushes(t) =>
            /\ Paths(chgs[t]) \cap DOMAIN flushes = {}
            /\ DOMAIN flushes' = DOMAIN flushes \cup Paths(chgs[t])
            /\ NumAdds(t)' + NumRemoves(t)' = Len(chgs[t])
            /\ chgs'[t] = <<>>
       /\ ~TickFlushes(t) => BatchGrows(t)]_vars

\* ProcessList failed with changes 1 and 2 in the batch; change 3 came
\* later, and the first tick on which ProcessList succeeded flushed all
\* three
C19_Witness ==
  /\ TickedOk(WatchTask)
  /\ held[WatchTask] = 2
  /\ DOMAIN flushes = {1, 2, 3}
  /\ NumAdds(WatchTask) + NumRemoves(WatchTask) = 3
  /\ Instances(WatchTask) >= 1

\* C20: a tick that takes changes out of the batch has called handleAdds or
\* handleRemoves for at least one instance.
C20_RemovedOnlyAfterDispatch ==
  \A t \in Tasks : TickedOk(t) => Len(Calls(log[t])) >= 1


(***************************************************************************)
(* streamLogs from its start, in a session that has started its tasks and  *)
(* blocks until the cancellation.                                          *)
(***************************************************************************)
InitLogs ==
  /\ opts = [Build |-> FALSE, External |-> FALSE]
  /\ cancelled = FALSE
  /\ cancelPc = ""
  /\ pc = "block"
  /\ trail = {"start", "setup", "spawn", "waitRunning"}
  /\ observed = ""
  /\ app = "unread"
  /\ result = "pending"
  /\ wfb = "pending"
  /\ polls = <<>>
  /\ promotes = <<>>
  /\ copying = FALSE
  /\ logs = "select"
  /\ he = "select"
  /\ errchClosed = FALSE
  /\ printed = {}
  /\ panicked = FALSE
  /\ wc = [s \in Services |-> "done"]
  /\ wp = [t \in Tasks |-> "idle"]
  /\ cch = [t \in Tasks |-> <<>>]
  /\ chgs = [t \in Tasks |-> <<>>]
  /\ log = [t \in Tasks |-> <<>>]
  /\ nextId = 1
  /\ flushes = [i \in {} |-> 0]
  /\ held = [t \in Tasks |-> 0]
  /\ InitAux

NextLogs ==
  \/ Cancel
  \/ StreamLogsFetch
  \/ WriteLogsLine
  \/ WriteLogsEnd
  \/ StreamLogsSleep

SpecLogs == InitLogs /\ [][NextLogs]_vars

(***************************************************************************)
(* Properties of streamLogs and writeLogs.                                 *)
(***************************************************************************)
\* streamLogs has returned only if ctx is cancelled; every AppLogs call but
\* the one in progress was followed by one sleep
RetriesUntilCancelled ==
  /\ logs = "done" => cancelled
  /\ logs = "select" => naps = Len(fetches)
  /\ logs \in {"writeLogs", "fetched"} => naps = Len(fetches) - 1
  /\ logs = "done" => naps \in {Len(fetches), Len(fetches) - 1}
  /\ (logs = "select" /\ Len(fetches) < MaxFetches) => ENABLED StreamLogsFetch
  /\ logs = "fetched" => ENABLED StreamLogsSleep

Shapes(l) ==
  {d \in (1 .. Len(l)) \X (1 .. Len(l)) \X (1 .. Len(l)) :
     /\ l[1] = "TS" /\ l[2] = " "
     /\ 3 < d[1] /\ d[1] + 1 < d[2] /\ d[2] + 1 < d[3]
     /\ l[d[1]] = "/" /\ l[d[2]] = "/" /\ l[d[3]] = " "
     /\ \A i \in 3 .. d[3] - 1 : l[i] = "/" <=> i \in {d[1], d[2]}
     /\ \A i \in d[2] + 1 .. d[3] - 1 : l[i] # " "}

\* the segments of the instance-id before a hyphen that no hyphen precedes
BeforeFirstHyphen(id) ==
  {SubSeq(id, 1, n) : n \in {k \in 0 .. Len(id) :
     /\ \A i \in 1 .. k : id[i] # "-"
     /\ k < Len(id) => id[k + 1] = "-"}}

\* the keys the claim routes line l under
RoutingKeys(l) ==
  UNION {LET kind == SubSeq(l, 3, d[1] - 1)
             name == SubSeq(l, d[1] + 1, d[2] - 1)
             id == SubSeq(l, d[2] + 1, d[3] - 1)
         IN CASE kind = <<"service">> -> {name} \cap Interest
              [] kind = <<"system">> -> BeforeFirstHyphen(id) \cap Interest
              [] OTHER -> {} : d \in Shapes(l)}

\* writeLogs wrote for the line scanned last what the claim says
Demultiplexed ==
  /\ Len(scanned.wrote) <= 1
  /\ {scanned.wrote[i].key : i \in 1 .. Len(scanned.wrote)}
       = RoutingKeys(scanned.line)

\* C12 as stated: every line scanned is written once under its routing key
\* if it has one, and not at all if it has none.
C12_Original == scanned # NoLine => Demultiplexed

\* C12: every line scanned while ctx is not cancelled is written at most
\* once: once under its routing key if it matches the pattern and has a key
\* in the interest set (origin-name of a service line, segment of the
\* instance-id before the first hyphen of a system line), not at all
\* otherwise; at a line scanned after ctx is cancelled writeLogs returns
\* and writes nothing for it.
C12_Demultiplexing ==
  /\ (scanned # NoLine /\ ~scanned.done) => Demultiplexed
  /\ scanned.done => cancelled /\ scanned.wrote = <<>> /\ logs # "writeLogs"

\* a system line of origin-name db and instance-id worker-web-1 is routed
\* under worker
C12_Witness ==
  /\ reAppLog(scanned.line).ok
  /\ reAppLog(scanned.line).kind = <<"system">>
  /\ reAppLog(scanned.line).name = <<"db">>
  /\ reAppLog(scanned.line).id = <<"worker", "-", "web", "-", "1">>
  /\ Len(scanned.wrote) = 1
  /\ scanned.wrote[1].key = <<"worker">>

(***************************************************************************)
(* Properties of buildSources.                                             *)
(***************************************************************************)
Range(q) == {q[i] : i \in 1 .. Len(q)}

\* Local of b is a strict path-prefix of Local of a, and the relative path
\* from Local of b to Local of a is the one from Remote of b to Remote of a
ContainedIn(a, b) ==
  /\ Len(b.Local.segs) < Len(a.Local.segs)
  /\ SubSeq(a.Local.segs, 1, Len(b.Local.segs)) = b.Local.segs
  /\ ~FilepathRel(b.Remote, a.Remote).err
  /\ FilepathRel(b.Local, a.Local) = FilepathRel(b.Remote, a.Remote)

\* C13: when buildSources returns a list, it holds no entry that another
\* entry of the build instructions contains with an equal relative mapping,
\* wherever the two appear, and so no two entries of which one contains the
\* other.
C13_ContainmentDedup ==
  (bsPc = "done" /\ bsErr = "") =>
    /\ \A i, j \in 1 .. Len(bs) :
         ContainedIn(bs[i], bs[j]) => bs[i] \notin Range(bss)
    /\ \A x, y \in Range(bss) : ~ContainedIn(x, y)

IsOption(p) == p.kind = "option"

IsNoOption(p) == p.kind # "option"

\* the fields of a line after the instruction: those that are no options,
\* and whether one is a --from option
NonOptions(parts) == SelectSeq(Tail(parts), IsNoOption)

HasFrom(parts) ==
  \E i \in 2 .. Len(parts) : IsOption(parts[i]) /\ parts[i].name = "from"

\* an instruction as the build-instruction syntax has it: the options
\* first, then one source or more and the destination
WellFormed(parts) ==
  /\ Len(NonOptions(parts)) >= 2
  /\ \A i, j \in 2 .. Len(parts) :
       (IsOption(parts[i]) /\ IsNoOption(parts[j])) => i < j

\* C14: for a file of one ADD or COPY line without a --from option, with
\* any number of options before its sources and destination, buildSources
\* does not panic and records one BuildSource of the first field that is
\* no option as source and the second as destination.
C14_OptionsStripped ==
  (df \in CopyFiles /\ WellFormed(df[1]) /\ ~HasFrom(df[1])) =>
    /\ bsErr # "panic"
    /\ bsPc = "resolve" =>
         bs = <<BuildSource(FilepathJoin(BuildPath, NonOptions(df[1])[1]),
                            NonOptions(df[1])[2])>>

\* C15: for a file of one ADD or COPY line with a --from option anywhere
\* among the options before its sources and destination, buildSources
\* records no BuildSource.
C15_FromSkipsLine ==
  (df \in CopyFiles /\ WellFormed(df[1]) /\ HasFrom(df[1])) =>
    bs = <<>> /\ bss = <<>>

\* the line buildSources scans is a FROM line with an image
AtFrom ==
  /\ bsPc = "scan"
  /\ Len(df[bsLine]) > 1
  /\ Instruction(df[bsLine]) = "FROM"

\* env' is env with the entries KEY=value of ee put in
Merged(e, ee, f) ==
  LET set == {i \in 1 .. Len(ee) : ee[i].eq}
      keys == {ee[i].key : i \in set}
  IN /\ DOMAIN f = DOMAIN e \cup keys
     /\ \A k \in DOMAIN f :
          IF k \in keys
            THEN \E i \in set :
                   /\ ee[i].key = k
                   /\ f[k] = ee[i].val
                   /\ \A j \in set : ee[j].key = k => j <= i
            ELSE f[k] = e[k]

\* buildSources goes on after this line
GoesOn == bsLine' = bsLine + 1 /\ bsPc' \in {"scan", "resolve"} /\ bsErr' = ""

\* the step of a FROM line does what C16 says
FromStep ==
  AtFrom =>
    /\ inspected'.eres = "error" =>
         GoesOn /\ env' = env /\ wd' = wd /\ inspected'.wres = "none"
    /\ inspected'.wres = "error" =>
         bsPc' = "done" /\ bsErr' = "inspect" /\ bss' = <<>>
    /\ inspected'.wres = "ok" =>
         GoesOn /\ wd' = inspected'.iw /\ Merged(env, inspected'.ee, env')

\* C16: at a FROM line, if the inspection of the environment fails,
\* buildSources raises no error, leaves env and wd as they are and goes on
\* with the next line, so that the lines after it are scanned and their
\* BuildSource is recorded; if the inspection of the working directory
\* fails, buildSources returns an error and no list; if both succeed, wd is
\* the working directory of the image and the entries of the image are put
\* in env.
C16_FromInspection ==
  /\ [][FromStep]_vars
  /\ [](inspected.eres = "error" =>
          /\ bsErr # "inspect"
          /\ (df \in FromFiles /\ bsPc = "resolve") => Len(bs) = 1)
  /\ [](inspected.wres = "error" =>
          bsPc = "done" /\ bsErr = "inspect" /\ bss = <<>>)

\* the inspection of the environment failed, and the ADD line after the
\* FROM line gave the list its entry
C16_Witness ==
  /\ df \in FromFiles
  /\ inspected.eres = "error"
  /\ bsPc = "done"
  /\ bsErr = ""
  /\ Len(bss) = 1

(***************************************************************************)
(* Properties of handleAdds.                                               *)
(***************************************************************************)
\* C18: when handleAdds has returned, its upload task has ended (or was
\* never started), and handleAdds is never in a Write on the pipe with the
\* upload task no longer reading and the read end open.
C18_HandleAddsReleases ==
  /\ ha = "done" => up \in {"idle", "done"}
  /\ ~(ha \in {"header", "twClose"} /\ up = "send" /\ pipe.r # "closed")

(***************************************************************************)
(* Properties of replaceEnv.                                               *)
(***************************************************************************)
\* C21: for one string and one map, every call of replaceEnv returns the
\* same result, whatever the order in which range visits the entries.
C21_ReplaceEnvDeterministic == Cardinality(reOuts) <= 1

====
